---- MODULE Spec2Model ----
(***************************************************************************)
(* Request execution engine of the Onfido Go SDK: the operation facade of  *)
(* Client (applicants, workflow runs, documents), the retry loop of        *)
(* HttpClient.doRequest and the mapping of the final response to a result. *)
(*                                                                         *)
(* One behaviour is one call of one facade operation on a client built by  *)
(* NewClient.  The remote server and the caller's context are the          *)
(* environment: every send draws its outcome from Outcomes, and the        *)
(* context may be cancelled at any moment.                                 *)
(*                                                                         *)
(* Text (header values, identifiers, query values) is a sequence of        *)
(* one-character strings, so that strconv.Atoi and fmt.Sprintf("%d") are   *)
(* computed and not assumed.                                               *)
(***************************************************************************)
EXTENDS Integers, Sequences, FiniteSets, TLC

\* ------------------------------------------------------------------ bounds

\* Client.Retries ranges over -1 .. MaxRetries.
MaxRetries == 2
\* A list call takes at most MaxOpts options.
MaxOpts == 2

\* The most links in a Link header.
MaxLinks == 2

\* The most calls of Close that are counted.
MaxCloses == 2

\* --------------------------------------------------------- program constants

StatusOK == 200
StatusFound == 302
StatusTooManyRequests == 429
StatusInternalServerError == 500
\* options.retryWait when retries are enabled and no wait is set, in seconds
DefaultRetryWait == 2
CURRENT_CLIENT_VERSION == "1.0.0"
LATEST_API_VERSION == "v3.6"
API_REGION_EU == "eu"
API_REGION_US == "us"
API_REGION_CA == "ca"
DEFAULT_API_REGION == API_REGION_EU

\* --------------------------------------------------------------------- text

Digits == <<"0", "1", "2", "3", "4", "5", "6", "7", "8", "9">>

IsDigit(c) == \E i \in 1..10 : Digits[i] = c

DigitVal(c) == (CHOOSE i \in 1..10 : Digits[i] = c) - 1

RECURSIVE ParseDigits(_, _)
ParseDigits(s, acc) ==
    IF s = <<>> THEN acc
    ELSE ParseDigits(Tail(s), acc * 10 + DigitVal(Head(s)))

\* strconv.Atoi: an optional sign followed by one or more decimal digits.
Atoi(s) ==
    LET signed == s # <<>> /\ Head(s) \in {"+", "-"}
        ds     == IF signed THEN Tail(s) ELSE s
    IN  IF ds = <<>> \/ \E i \in 1..Len(ds) : ~IsDigit(ds[i])
        THEN [ok |-> FALSE, n |-> 0]
        ELSE [ok |-> TRUE,
              n  |-> IF signed /\ Head(s) = "-"
                     THEN 0 - ParseDigits(ds, 0) ELSE ParseDigits(ds, 0)]

RECURSIVE NatToText(_)
NatToText(n) ==
    IF n < 10 THEN <<Digits[n + 1]>>
    ELSE NatToText(n \div 10) \o <<Digits[(n % 10) + 1]>>

\* fmt.Sprintf("%d", n)
Itoa(n) == IF n < 0 THEN <<"-">> \o NatToText(0 - n) ELSE NatToText(n)

\* The characters of a string.
Chars(s) == [i \in 1..Len(s) |-> SubSeq(s, i, i)]

\* The first position from which sep occurs in s, or 0.
IndexOf(s, sep) ==
    LET at == {i \in 1..(Len(s) - Len(sep) + 1) : SubSeq(s, i, i + Len(sep) - 1) = sep}
    IN  IF at = {} THEN 0 ELSE CHOOSE i \in at : \A j \in at : i <= j

\* strings.Contains
Contains(s, sub) == IndexOf(s, sub) # 0

\* strings.Split with a separator that is not empty.
RECURSIVE Split(_, _)
Split(s, sep) ==
    LET i == IndexOf(s, sep)
    IN  IF i = 0 THEN <<s>>
        ELSE <<SubSeq(s, 1, i - 1)>> \o Split(SubSeq(s, i + Len(sep), Len(s)), sep)

\* strings.ReplaceAll
RECURSIVE ReplaceAll(_, _, _)
ReplaceAll(s, old, new) ==
    LET i == IndexOf(s, old)
    IN  IF i = 0 THEN s
        ELSE SubSeq(s, 1, i - 1) \o new
             \o ReplaceAll(SubSeq(s, i + Len(old), Len(s)), old, new)

\* ------------------------------------------------------------- pagination

\* PageDetails, with 0 for a nil pointer.
NoPageDetails ==
    [Total |-> 0, Limit |-> 0, FirstPage |-> 0, LastPage |-> 0, NextPage |-> 0,
     PrevPage |-> 0]

\* n, _ := strconv.Atoi(text)
AtoiOrZero(text) == Atoi(Chars(text)).n

\* The switch on rel.
SetPage(pageResponse, rel, page) ==
    CASE rel = "first" -> [pageResponse EXCEPT !.FirstPage = page]
      [] rel = "last"  -> [pageResponse EXCEPT !.LastPage = page]
      [] rel = "next"  -> [pageResponse EXCEPT !.NextPage = page]
      [] rel = "prev"  -> [pageResponse EXCEPT !.PrevPage = page]
      [] OTHER         -> pageResponse

\* One turn of the loop over the links of extractPageDetails.
ExtractLink(pageResponse, link) ==
    LET splitted == Split(link, ">; rel=")
    IN  IF Len(splitted) # 2 THEN pageResponse
        ELSE
        LET main0      == splitted[1]
            rel        == ReplaceAll(splitted[2], "\"", "")
            hasPerPage == Contains(main0, "per_page=")
            perSplit   == Split(main0, "&per_page=")
        IN  IF hasPerPage /\ Len(perSplit) # 2 THEN pageResponse
            ELSE
            LET per_page == IF hasPerPage THEN AtoiOrZero(perSplit[2]) ELSE 0
                main     == IF hasPerPage THEN perSplit[1] ELSE main0
                limited  == IF per_page # 0
                            THEN [pageResponse EXCEPT !.Limit = per_page]
                            ELSE pageResponse
                splittedMain == Split(main, "page=")
            IN  IF Len(splittedMain) # 2 THEN limited
                ELSE LET page == AtoiOrZero(splittedMain[2])
                     IN  IF page # 0 THEN SetPage(limited, rel, page) ELSE limited

RECURSIVE ExtractLinks(_, _)
ExtractLinks(pageResponse, links) ==
    IF links = <<>> THEN pageResponse
    ELSE ExtractLinks(ExtractLink(pageResponse, Head(links)), Tail(links))

\* extractPageDetails that reads X-Total-Count only beside a Link header.
extractPageDetailsLinkedTotal(headers) ==
    LET total == IF headers.Link = "" THEN 0 ELSE AtoiOrZero(headers.Total)
        start == IF total # 0 THEN [NoPageDetails EXCEPT !.Total = total]
                 ELSE NoPageDetails
    IN  ExtractLinks(start, Split(headers.Link, ","))

\* extractPageDetails(headers)
extractPageDetails(headers) ==
    LET total == AtoiOrZero(headers.Total)
        start == IF total # 0 THEN [NoPageDetails EXCEPT !.Total = total]
                 ELSE NoPageDetails
    IN  ExtractLinks(start, Split(headers.Link, ","))

\* ------------------------------------------------------------ call options

NoText == <<>>

\* Go option values, tagged by their dynamic type.
WithPage(page) ==
    [type |-> "PaginationOption", field |-> "Page", num |-> page, text |-> ""]

WithPageLimit(limit) ==
    [type |-> "LimitPaginationOption", field |-> "PerPage", num |-> limit, text |-> ""]

WithIncludeDeletedApplicants ==
    [type |-> "ListApplicantsOption", field |-> "IncludeDeleted", num |-> 1, text |-> ""]

WithWorkflowRunStatus(status) ==
    [type |-> "ListWorkflowRunOption", field |-> "Status", num |-> 0, text |-> status]

WithWorkflowRunTags(tag) ==
    [type |-> "ListWorkflowRunOption", field |-> "Tags", num |-> 0, text |-> tag]

WithWorkflowRunCreatedAfter(date) ==
    [type |-> "ListWorkflowRunOption", field |-> "CreatedAfter", num |-> date, text |-> ""]

WithWorkflowRunCreatedBefore(date) ==
    [type |-> "ListWorkflowRunOption", field |-> "CreatedBefore", num |-> date, text |-> ""]

WithWorkflowRunSort(sort) ==
    [type |-> "ListWorkflowRunOption", field |-> "Sort", num |-> 0, text |-> sort]

\* Query parameters: a map from key to text.
NoParams == [k \in {} |-> NoText]

SetParam(params, key, value) ==
    [k \in (DOMAIN params) \cup {key} |-> IF k = key THEN value ELSE params[k]]

\* getPaginationOptions's type switch: it matches the value types
\* paginationOption and limitPaginationOption.
PaginationCase(opt, params) ==
    IF opt.type = "paginationOption" /\ opt.Page # 0
        THEN SetParam(params, "page", Itoa(opt.Page))
    ELSE IF opt.type = "limitPaginationOption" /\ opt.PerPage # 0
        THEN SetParam(params, "per_page", Itoa(opt.PerPage))
    ELSE params

RECURSIVE PaginationLoop(_, _)
PaginationLoop(opts, params) ==
    IF opts = <<>> THEN params
    ELSE PaginationLoop(Tail(opts), PaginationCase(Head(opts), params))

getPaginationOptions(opts) == PaginationLoop(opts, NoParams)

\* &paginationOption{}: the value the list operations hand to
\* getPaginationOptions is the pointer.
NewPaginationOption == [type |-> "*paginationOption", Page |-> 0, PerPage |-> 0]

\* One turn of getListApplicantParams's loop over the caller's options.
ApplyApplicantOption(options, opt) ==
    IF opt.type = "ListApplicantsOption"
        THEN [options EXCEPT !.IncludeDeleted = TRUE]
    ELSE IF opt.type = "PaginationOption"
        THEN [options EXCEPT !.paginationOption.Page = opt.num]
    ELSE options

RECURSIVE ApplicantOptionsLoop(_, _)
ApplicantOptionsLoop(opts, options) ==
    IF opts = <<>> THEN options
    ELSE ApplicantOptionsLoop(Tail(opts), ApplyApplicantOption(options, Head(opts)))

getListApplicantParams(opts) ==
    LET options == ApplicantOptionsLoop(opts,
                       [paginationOption |-> NewPaginationOption,
                        IncludeDeleted   |-> FALSE])
        params  == getPaginationOptions(<<options.paginationOption>>)
    IN  IF options.IncludeDeleted
        THEN SetParam(params, "include_deleted", <<"t", "r", "u", "e">>)
        ELSE params

\* What a ListWorkflowRunOption closure does to listWorkflowRunOptions.
SetWorkflowRunField(options, opt) ==
    CASE opt.field = "Status"        -> [options EXCEPT !.Status = opt.text]
      [] opt.field = "Tags"          -> [options EXCEPT !.Tags = Append(@, opt.text)]
      [] opt.field = "CreatedAfter"  -> [options EXCEPT !.CreatedAfter = opt.num]
      [] opt.field = "CreatedBefore" -> [options EXCEPT !.CreatedBefore = opt.num]
      [] opt.field = "Sort"          -> [options EXCEPT !.Sort = opt.text]
      [] OTHER                       -> options

\* One turn of getListWorkflowRunParams's loop over the caller's options.
ApplyWorkflowRunOption(options, opt) ==
    IF opt.type = "ListWorkflowRunOption"
        THEN SetWorkflowRunField(options, opt)
    ELSE IF opt.type = "PaginationOption"
        THEN [options EXCEPT !.paginationOption.Page = opt.num]
    ELSE options

RECURSIVE WorkflowRunOptionsLoop(_, _)
WorkflowRunOptionsLoop(opts, options) ==
    IF opts = <<>> THEN options
    ELSE WorkflowRunOptionsLoop(Tail(opts), ApplyWorkflowRunOption(options, Head(opts)))

listWorkflowRunOptions(opts) ==
    WorkflowRunOptionsLoop(opts,
        [paginationOption |-> NewPaginationOption,
         Status |-> "", Tags |-> <<>>, CreatedAfter |-> 0, CreatedBefore |-> 0,
         Sort |-> ""])

getListWorkflowRunParams(opts) ==
    getPaginationOptions(<<listWorkflowRunOptions(opts).paginationOption>>)

\* getListDocumentParams
getListDocumentParams(applicantId) == SetParam(NoParams, "applicant_id", applicantId)

\* ------------------------------------------------------- operation facade

ApplicantOps ==
    {"CreateApplicant", "UpdateApplicant", "RetrieveApplicant", "ListApplicants",
     "DeleteApplicant", "RestoreApplicant"}

WorkflowRunOps ==
    {"CreateWorkflowRun", "RetrieveWorkflowRun", "ListWorkflowRuns",
     "RetrieveWorkflowRunEvidenceSummaryFile"}

DocumentOps ==
    {"UploadDocument", "RetrieveDocument", "ListDocuments", "DownloadDocument",
     "DownloadDocumentNFCFace", "DownloadDocumentVideo"}

Ops == ApplicantOps \cup WorkflowRunOps \cup DocumentOps

ListOps == {"ListApplicants", "ListWorkflowRuns"}

\* The operations with an identifier parameter.
IdOps ==
    {"UpdateApplicant", "RetrieveApplicant", "DeleteApplicant", "RestoreApplicant",
     "RetrieveWorkflowRun", "RetrieveWorkflowRunEvidenceSummaryFile",
     "RetrieveDocument", "ListDocuments", "DownloadDocument",
     "DownloadDocumentNFCFace", "DownloadDocumentVideo"}

\* The operations that begin with `if id == "" { return nil, ErrInvalidId }`.
ChecksId(op) ==
    op \in {"RetrieveWorkflowRun", "RetrieveDocument", "DownloadDocument",
            "DownloadDocumentNFCFace", "DownloadDocumentVideo"}

\* The operations that pass c.getHttpRequestOptions(...) to the transport.
PassesRetryOptions(op) == op \notin {"CreateApplicant", "CreateWorkflowRun"}

\* The operations that map the response with getError(resp, true).
IgnoresFound(op) ==
    op \in {"RetrieveWorkflowRunEvidenceSummaryFile", "DownloadDocument",
            "DownloadDocumentNFCFace", "DownloadDocumentVideo"}

\* The operations that decode the body into a destination.
HasDest(op) ==
    op \in {"CreateApplicant", "UpdateApplicant", "RetrieveApplicant", "ListApplicants",
            "CreateWorkflowRun", "RetrieveWorkflowRun", "ListWorkflowRuns",
            "UploadDocument", "RetrieveDocument", "ListDocuments"}

HttpMethod(op) ==
    CASE op \in {"CreateApplicant", "RestoreApplicant", "CreateWorkflowRun",
                 "UploadDocument"}  -> "POST"
      [] op = "UpdateApplicant"     -> "PUT"
      [] op = "DeleteApplicant"     -> "DELETE"
      [] OTHER                      -> "GET"

\* The path handed to the transport, as its concatenated pieces.
HttpPath(op, id) ==
    CASE op \in {"CreateApplicant", "ListApplicants"}     -> <<"/applicants">>
      [] op \in {"UpdateApplicant", "RetrieveApplicant", "DeleteApplicant"}
                                                          -> <<"/applicants/", id>>
      [] op = "RestoreApplicant"          -> <<"/applicants/", id, "/restore">>
      [] op \in {"CreateWorkflowRun", "ListWorkflowRuns"} -> <<"/workflow_runs">>
      [] op = "RetrieveWorkflowRun"       -> <<"/workflow_runs/", id>>
      [] op = "RetrieveWorkflowRunEvidenceSummaryFile"
                                -> <<"/workflow_runs/", id, "/signed_evidence_file">>
      [] op \in {"UploadDocument", "ListDocuments"}       -> <<"/documents">>
      [] op = "RetrieveDocument"          -> <<"/documents/", id>>
      [] op = "DownloadDocument"          -> <<"/documents/", id, "/download">>
      [] op = "DownloadDocumentNFCFace"   -> <<"/documents/", id, "/nfc_face">>
      [] op = "DownloadDocumentVideo"     -> <<"/documents/", id, "/video/download">>

\* The kind of body handed to the transport.
HttpBody(op) ==
    CASE op \in {"CreateApplicant", "UpdateApplicant", "CreateWorkflowRun"} -> "json"
      [] op = "UploadDocument"                                             -> "multipart"
      [] OTHER                                                             -> "none"

\* The query parameters handed to the transport.
QueryParams(op, id, opts) ==
    CASE op = "ListApplicants"   -> getListApplicantParams(opts)
      [] op = "ListWorkflowRuns" -> getListWorkflowRunParams(opts)
      [] op = "ListDocuments"    -> getListDocumentParams(id)
      [] OTHER                   -> NoParams

\* ErrInvalidId
ErrInvalidId == [type |-> "validation_error", message |-> "id is required"]

\* ---------------------------------------------------------------- transport

\* WithHttpRetries(c.Retries, c.RetryWait), or the zero requestOptions of a
\* call that passes no retry option.
RequestRetries(op, retries, retryWait) ==
    IF PassesRetryOptions(op)
    THEN [retries |-> retries, retryWait |-> retryWait]
    ELSE [retries |-> 0, retryWait |-> 0]

\* "Set default retry wait time if retries are enabled but no wait time is set"
EffectiveRetryWait(retries, retryWait) ==
    IF retries > 0 /\ retryWait = 0 THEN DefaultRetryWait ELSE retryWait

\* The bytes the request body reader holds before the first attempt.
SerializeBody(kind) ==
    CASE kind = "json"      -> <<"{", "}">>
      [] kind = "multipart" -> <<"-", "-", "b">>
      [] OTHER              -> <<>>

NoResp == [status |-> 0, retryAfter |-> NoText]

\* The http.Client default: follow up to 10 redirects.
CheckRedirectDefault(via) ==
    IF via >= 10 THEN "stopped after 10 redirects" ELSE "nil"

\* The CheckRedirect of the http.Client that NewHttpClient builds, asked
\* after via requests.
CheckRedirect(via) == "ErrUseLastResponse"

\* http.Client.Do requests the Location of a 302 itself when CheckRedirect
\* returns nil, and returns that request's response.
FollowsRedirect(r) == r.status = StatusFound /\ CheckRedirect(1) = "nil"

\* shouldRetry retrying every status from 400 on.
shouldRetryFrom400(resp, err) ==
    IF err # "nil" THEN TRUE ELSE resp.status >= 400

\* shouldRetry(resp, err)
shouldRetry(resp, err) ==
    IF err # "nil" THEN TRUE
    ELSE resp.status = StatusTooManyRequests \/ resp.status >= StatusInternalServerError

\* RetryAfterSeconds reading the header of a response of any status.
RetryAfterSecondsAnyStatus(resp) ==
    IF resp # NoResp /\ resp.retryAfter # NoText
    THEN Atoi(resp.retryAfter)
    ELSE [ok |-> FALSE, n |-> 0]

\* RetryAfterSeconds dropping the test for a present, integer header.
RetryAfterSecondsUnchecked(resp) ==
    IF resp # NoResp /\ resp.status = StatusTooManyRequests
    THEN [ok |-> TRUE, n |-> Atoi(resp.retryAfter).n]
    ELSE [ok |-> FALSE, n |-> 0]

\* The wait before attempt > 0: the seconds of an integer Retry-After on a
\* 429 (then the loop continues without sending), or the fixed retry wait.
RetryAfterSeconds(resp) ==
    IF resp # NoResp /\ resp.status = StatusTooManyRequests /\ resp.retryAfter # NoText
    THEN Atoi(resp.retryAfter)
    ELSE [ok |-> FALSE, n |-> 0]

\* -------------------------------------------------------- response mapping

\* The zero value of a field that the body does not set.
NoFields == "nil"

\* An error value.  message is its fixed text and detail the text of the
\* error formatted into it.
NoError == [kind |-> "nil", cause |-> "", type |-> "", message |-> "",
            detail |-> "", fields |-> NoFields]

OnfidoError(type, message) ==
    [kind |-> "OnfidoError", cause |-> "", type |-> type, message |-> message,
     detail |-> "", fields |-> NoFields]

\* An error built with fmt.Errorf; cause is what errors.Is finds under it.
Errorf(message, cause) ==
    [kind |-> "error", cause |-> cause, type |-> "", message |-> message,
     detail |-> "", fields |-> NoFields]

\* &OnfidoError{Type: "unknown internal error", Message: prefix + err.Error()}
DecodeError(prefix, text) ==
    [kind |-> "OnfidoError", cause |-> "", type |-> "unknown internal error",
     message |-> prefix, detail |-> text, fields |-> NoFields]

\* A response body: the JSON value it holds ("object", "array"), or
\* "malformed" or "empty"; for an object, whether it has an "error" member
\* and the members of that member, as <<name, value>> pairs, and whether it
\* has the array member of a listing ("applicants", "documents").
Body(json, hasError, error, hasList) ==
    [json |-> json, hasError |-> hasError, error |-> error, hasList |-> hasList]

NoBody == Body("empty", FALSE, {}, FALSE)

\* The error of json.Unmarshal of a body into a struct or into a slice; the
\* empty text is a nil error.
DecodeJSON(body, shape) ==
    CASE body.json = "empty"     -> "unexpected end of JSON input"
      [] body.json = "malformed" -> "invalid character"
      [] body.json = "array"     ->
            IF shape = "slice" THEN "" ELSE "cannot unmarshal array into Go value"
      [] body.json = "object"    ->
            IF shape = "slice" THEN "cannot unmarshal object into Go value" ELSE ""

\* The member of a JSON object that a struct tag names, or the zero value.
DecodeField(object, tag, zero) ==
    IF \E m \in object : m[1] = tag
    THEN (CHOOSE m \in object : m[1] = tag)[2]
    ELSE zero

\* UnmarshalOnfidoError leaving Fields unset.
UnmarshalOnfidoErrorNoFields(object) ==
    [kind    |-> "OnfidoError", cause |-> "", detail |-> "",
     type    |-> DecodeField(object, "type", ""),
     message |-> DecodeField(object, "message", ""),
     fields  |-> NoFields]

\* The *OnfidoError that json.Unmarshal builds from the "error" member, by
\* the struct tags of OnfidoError.
UnmarshalOnfidoError(object) ==
    [kind    |-> "OnfidoError", cause |-> "", detail |-> "",
     type    |-> DecodeField(object, "type", ""),
     message |-> DecodeField(object, "message", ""),
     fields  |-> DecodeField(object, "fields", NoFields)]

\* getError taking the error from any body that has an "error" member,
\* whatever the status.
getErrorFromBody(resp, body, ignoreFound) ==
    IF resp.status = StatusFound /\ ignoreFound THEN NoError
    ELSE IF DecodeJSON(body, "struct") = "" /\ body.hasError
    THEN UnmarshalOnfidoError(body.error)
    ELSE IF resp.status < StatusOK \/ resp.status >= 300
    THEN DecodeError("OnfidoErrorDecode: ", DecodeJSON(body, "struct"))
    ELSE NoError

\* getError(resp, ignoreFound)
getError(resp, body, ignoreFound) ==
    IF resp.status = StatusFound /\ ignoreFound THEN NoError
    ELSE IF resp.status < StatusOK \/ resp.status >= 300
    THEN IF DecodeJSON(body, "struct") # ""
         THEN DecodeError("OnfidoErrorDecode: ", DecodeJSON(body, "struct"))
         ELSE IF body.hasError
              THEN UnmarshalOnfidoError(body.error)
              \* onfidoError.Error is a nil *OnfidoError in a non-nil error
              ELSE [kind |-> "nil *OnfidoError", cause |-> "", type |-> "",
                    message |-> "", detail |-> "", fields |-> NoFields]
    ELSE NoError

\* getResponseOrError returning the error of json.Unmarshal itself.
getResponseOrErrorRawDecodeError(resp, body, shape) ==
    LET err == getError(resp, body, FALSE)
    IN  IF err # NoError THEN err
        ELSE IF shape # "none" /\ DecodeJSON(body, shape) # ""
        THEN Errorf(DecodeJSON(body, shape), "json")
        ELSE NoError

\* getResponseOrError(resp, dest)
getResponseOrError(resp, body, shape) ==
    LET err == getError(resp, body, FALSE)
    IN  IF err # NoError THEN err
        ELSE IF shape # "none" /\ DecodeJSON(body, shape) # ""
        THEN DecodeError("", DecodeJSON(body, shape))
        ELSE NoError

\* The destination an operation decodes the body into.
DestShape(op) ==
    IF ~HasDest(op) THEN "none"
    ELSE IF op = "ListWorkflowRuns" THEN "slice" ELSE "struct"

\* What the request closure of an operation makes of the transport's response.
MapResponse(op, resp, body, location) ==
    IF ~IgnoresFound(op) THEN getResponseOrError(resp, body, DestShape(op))
    ELSE LET err == getError(resp, body, TRUE)
         IN  IF err # NoError THEN err
             ELSE IF op = "RetrieveWorkflowRunEvidenceSummaryFile"
             THEN IF location # NoText THEN NoError
                  ELSE Errorf("failed to retrieve evidence summary file for", "")
             ELSE IF body.json = "empty" THEN Errorf("unable to download document", "")
             ELSE NoError

\* What the request closure makes of a failed doRequest.
MapTransportError(op, err) ==
    CASE op = "CreateWorkflowRun" -> Errorf("failed to send request", err.cause)
      [] op = "RetrieveWorkflowRunEvidenceSummaryFile"
                -> Errorf("failed to retrieve evidence summary file", "")
      [] OTHER  -> err

\* The values an operation returns for the error of its request closure.
Outcome(err, status) ==
    [val |-> IF err = NoError THEN "value" ELSE "nil", err |-> err, status |-> status,
     url |-> NoText, page |-> "nil"]

NoResult == [val |-> "none", err |-> NoError, status |-> 0, url |-> NoText,
             page |-> "nil"]

\* The operations that return a *PageDetails.
PagedOps == {"ListApplicants", "ListWorkflowRuns", "ListDocuments"}

\* return applicants, &pageDetails, nil: the list is the array member that
\* the body was decoded into, nil when the body has none.
WithList(outcome, op, body) ==
    IF op \in PagedOps /\ outcome.err = NoError
    THEN [outcome EXCEPT !.page = "&pageDetails",
                         !.val = IF op # "ListWorkflowRuns" /\ ~body.hasList
                                 THEN "nil" ELSE "value"]
    ELSE outcome

\* evidenceSummary = WorkflowRunEvidenceSummary{URL: location}
WithURL(outcome, op, location) ==
    IF op = "RetrieveWorkflowRunEvidenceSummaryFile" /\ outcome.err = NoError
    THEN [outcome EXCEPT !.url = location]
    ELSE outcome

\* A response without Link and X-Total-Count.
NoHeaders == [Link |-> "", Total |-> "", sent |-> <<>>]

\* -------------------------------------------------------------------- state

\* ------------------------------------------------------------ construction

\* The zero value of clientOptions.
NoClientOptions == [retries |-> 0, retryWait |-> 0, region |-> ""]

WithRetries(retries, wait) ==
    [name |-> "WithRetries", retries |-> retries, wait |-> wait, region |-> ""]

WithRegion(region) ==
    [name |-> "WithRegion", retries |-> 0, wait |-> 0, region |-> region]

\* opt(options): what the closure of a ClientOption does to the options.
ApplyClientOption(c, opt) ==
    IF opt.name = "WithRetries"
    THEN [c EXCEPT !.retries = opt.retries, !.retryWait = opt.wait]
    ELSE [c EXCEPT !.region = opt.region]

\* The loop of NewClient over opts, in order.
RECURSIVE ApplyClientOptions(_, _)
ApplyClientOptions(c, opts) ==
    IF opts = <<>> THEN c
    ELSE ApplyClientOptions(ApplyClientOption(c, Head(opts)), Tail(opts))

\* fmt.Sprintf("https://api.%s.onfido.com", region)
BaseURL(region) == "https://api." \o region \o ".onfido.com"

\* No *Client: the nil pointer NewClient returns beside an error.
NoClient == [nil |-> TRUE, Endpoint |-> "", Retries |-> 0, RetryWait |-> 0]

\* NewClient that leaves the default region whatever options.region is.
NewClientDefaultRegion(token, opts) ==
    IF token = ""
    THEN [client |-> NoClient, err |-> Errorf("apiToken is required", "")]
    ELSE LET o == ApplyClientOptions(NoClientOptions, opts)
             baseURL == BaseURL(DEFAULT_API_REGION)
             endpoint == baseURL \o "/" \o LATEST_API_VERSION
         IN  [client |-> [nil |-> FALSE, Endpoint |-> endpoint,
                          Retries |-> o.retries, RetryWait |-> o.retryWait],
              err |-> NoError]

NewClient(token, opts) ==
    IF token = ""
    THEN [client |-> NoClient, err |-> Errorf("apiToken is required", "")]
    ELSE LET o == ApplyClientOptions(NoClientOptions, opts)
             baseURL == IF o.region # ""
                        THEN BaseURL(o.region)
                        ELSE BaseURL(DEFAULT_API_REGION)
             endpoint == baseURL \o "/" \o LATEST_API_VERSION
         IN  [client |-> [nil |-> FALSE, Endpoint |-> endpoint,
                          Retries |-> o.retries, RetryWait |-> o.retryWait],
              err |-> NoError]

\* The headers NewClient gives the transport.
DefaultHeaders(token) ==
    [ContentType   |-> "application/json",
     UserAgent     |-> "Go-Onfido/" \o CURRENT_CLIENT_VERSION,
     Authorization |-> "Token token=" \o token]

\* An empty http.Header.
NoHttpHeaders == [ContentType |-> "", UserAgent |-> "", Authorization |-> ""]

\* req.Header: the transport's headers, then those doRequest sets in
\* options.headers for the kind of body.
RequestHeader(h, kind) ==
    CASE kind = "multipart" -> [h EXCEPT !.ContentType = "multipart/form-data"]
      [] kind = "json"      -> [h EXCEPT !.ContentType = "application/json"]
      [] OTHER              -> h

VARIABLES
    apiToken,     \* the token NewClient was called with
    options,      \* the ClientOptions NewClient was called with
    Endpoint,     \* Client.Endpoint
    Retries,      \* Client.Retries
    RetryWait,    \* Client.RetryWait, in seconds
    baseURL,      \* HttpClient.baseURL
    httpHeaders,  \* HttpClient.headers
    idleConns,    \* the idle connections pooled by HttpClient.client
    closes,       \* the calls of Client.Close so far, up to MaxCloses
    self,         \* the goroutine that is running: 1 or 2
    peer,         \* the local state of the other goroutine's operation
    ctxDone,      \* the caller's context is cancelled or past its deadline
    pc,           \* "new" (before NewClient), "idle", "loop" (head of the
                  \* retry loop), "send", "return", "done"; "extracted" and
                  \* "extracted again" for extractPageDetails on its own
    call,         \* the operation called, with its identifier and options
    req,          \* the request and the requestOptions built by doRequest
    bodyReader,   \* what is left to read of the request body
    attempt,      \* the loop variable of the retry loop
    resp,         \* resp of the retry loop (NoResp is nil)
    lastErr,      \* lastErr of the retry loop: "nil", "transport" or "context"
    respClosed,   \* resp.Body has been closed by the retry loop
    sendLog,      \* one entry per invocation of c.client.Do
    waits,        \* the argument of every time.Sleep, in seconds
    result,       \* what the operation returned
    respBody,     \* the body doRequest read from the last response
    respLocation, \* the Location header of that response
    headers,      \* its Link and X-Total-Count headers, and the links sent
    pageDetails   \* pageDetails of a list operation

vars == <<apiToken, options, Endpoint, Retries, RetryWait, baseURL, httpHeaders,
          idleConns, closes, self, peer, ctxDone, pc, call, req, bodyReader,
          attempt, resp, lastErr, respClosed, sendLog, waits, result, respBody,
          respLocation, headers, pageDetails>>

\* What an operation leaves alone of the client and of the other goroutine.
clientVars == <<apiToken, options, Endpoint, Retries, RetryWait, baseURL, httpHeaders>>

otherVars == <<closes, self, peer>>

NoCall == [op |-> "", id |-> NoText, opts |-> <<>>]

NoReq == [method |-> "", baseURL |-> "", path |-> <<>>, query |-> NoParams,
          header |-> NoHttpHeaders, body |-> "none", retries |-> 0, retryWait |-> 0]

\* The local state of the running goroutine's operation.
Locals ==
    [ctxDone |-> ctxDone, pc |-> pc, call |-> call, req |-> req,
     bodyReader |-> bodyReader, attempt |-> attempt, resp |-> resp,
     lastErr |-> lastErr, respClosed |-> respClosed, sendLog |-> sendLog,
     waits |-> waits, result |-> result, respBody |-> respBody,
     respLocation |-> respLocation, headers |-> headers,
     pageDetails |-> pageDetails]

\* ------------------------------------------------------------ environment

RetryWaits == {0, 5}

Tokens == {"", "token"}

Regions == {API_REGION_EU, API_REGION_US, API_REGION_CA}

ClientOptions ==
    {WithRetries(retries, wait) : retries \in -1..MaxRetries, wait \in RetryWaits}
        \cup {WithRegion(region) : region \in Regions}

Ids == {NoText, <<"a", "1">>}

Statuses == {200, 302, 422, 429, 500}

RetryAfters == {NoText, <<"3">>, <<"x">>}

\* What a send can end in: a transport error or a response.
Responses ==
    {[status |-> st, retryAfter |-> NoText] : st \in Statuses}
    \cup {[status |-> 429, retryAfter |-> ra] : ra \in RetryAfters}
    \cup {[status |-> 500, retryAfter |-> <<"3">>]}

BodyKinds == {"object", "array", "malformed", "empty"}

\* The "error" members a server sends: with all of type, message and
\* fields, and with some left out.
ErrorMembers ==
    {{<<"type", "validation_error">>, <<"message", "invalid">>, <<"fields", "email">>},
     {<<"type", "rate_limit">>, <<"message", "slow down">>, <<"fields", "none">>},
     {<<"message", "no type">>},
     {}}

\* The Location header of a response: none, or a URL.
Locations == {NoText, <<"https://files/", "1">>}

\* The bodies a response can have.
Bodies ==
    {Body(k, FALSE, {}, FALSE) : k \in BodyKinds}
    \cup {Body("object", TRUE, e, FALSE) : e \in ErrorMembers}
    \cup {Body("object", FALSE, {}, TRUE)}

\* The arguments of WithPage and WithPageLimit.
PageNumbers == {0, 2}

PageOptions == {WithPage(p) : p \in PageNumbers}

ApplicantListOptions ==
    PageOptions \cup {WithPageLimit(l) : l \in PageNumbers}
    \cup {WithIncludeDeletedApplicants}

WorkflowRunListOptions ==
    PageOptions
    \cup {WithWorkflowRunStatus("processing"), WithWorkflowRunTags("test"),
          WithWorkflowRunCreatedAfter(1), WithWorkflowRunCreatedBefore(2),
          WithWorkflowRunSort("asc"), WithWorkflowRunSort("desc")}

ListOptions(op) ==
    IF op = "ListApplicants" THEN ApplicantListOptions ELSE WorkflowRunListOptions

SeqsUpTo(S, n) == UNION {[1..k -> S] : k \in 0..n}

\* A link of a Link header as the server means it: the relation, the page
\* number, and how the link is written.
LinkEntry(rel, page, form) == [rel |-> rel, page |-> page, form |-> form]

RECURSIVE Concat(_)
Concat(texts) == IF texts = <<>> THEN "" ELSE Head(texts) \o Concat(Tail(texts))

\* The text of a link: with the page as only parameter ("plain"), with
\* per_page after it ("limit") or before it ("limitFirst"), with another
\* parameter after it ("sorted"), without rel ("noRel") and without page
\* ("noPage").
RenderLink(e) ==
    LET page == "page=" \o Concat(Itoa(e.page))
        rel  == ">; rel=\"" \o e.rel \o "\""
    IN  CASE e.form = "plain"      -> "<https://api/a?" \o page \o rel
          [] e.form = "limit"      -> "<https://api/a?" \o page \o "&per_page=2" \o rel
          [] e.form = "limitFirst" -> "<https://api/a?per_page=2&" \o page \o rel
          [] e.form = "sorted"     -> "<https://api/a?" \o page \o "&sort=asc" \o rel
          [] e.form = "noRel"      -> "<https://api/a?" \o page \o ">"
          [] e.form = "noPage"     -> "<https://api/a" \o rel

\* The Link header of a sequence of links.
RECURSIVE RenderLinks(_)
RenderLinks(entries) ==
    IF entries = <<>> THEN ""
    ELSE IF Len(entries) = 1 THEN RenderLink(entries[1])
    ELSE RenderLink(Head(entries)) \o ", " \o RenderLinks(Tail(entries))

Headers(entries, total) ==
    [Link |-> RenderLinks(entries), Total |-> total, sent |-> entries]

LinkEntries ==
    {LinkEntry("next", 2, "plain"), LinkEntry("last", 3, "plain"),
     LinkEntry("first", 1, "plain"), LinkEntry("prev", 12, "plain"),
     LinkEntry("first", 0, "plain"), LinkEntry("next", 2, "limit"),
     LinkEntry("prev", 1, "limitFirst"), LinkEntry("next", 4, "noRel"),
     LinkEntry("last", 5, "noPage"), LinkEntry("last", 9, "sorted"),
     LinkEntry("other", 7, "plain"), LinkEntry("other", 7, "limit")}

TotalCounts == {"", "0", "6", "many"}

\* The paging headers of the response to a list operation.
ListHeaders ==
    {NoHeaders,
     Headers(<<LinkEntry("next", 2, "plain"), LinkEntry("last", 3, "plain")>>, "6")}

\* extractPageDetails of each of them.
ListPageDetails == [h \in ListHeaders |-> extractPageDetails(h)]

\* The headers that extractPageDetails is given.
AllHeaders ==
    {Headers(entries, total) : entries \in SeqsUpTo(LinkEntries, MaxLinks),
                               total \in TotalCounts}

\* ------------------------------------------------------------------ actions

\* No operation is running in the goroutine.
Idle ==
    /\ ctxDone = FALSE
    /\ pc = "idle"
    /\ call = NoCall
    /\ req = NoReq
    /\ bodyReader = <<>>
    /\ attempt = 0
    /\ resp = NoResp
    /\ lastErr = "nil"
    /\ respClosed = FALSE
    /\ sendLog = <<>>
    /\ waits = <<>>
    /\ result = NoResult
    /\ respBody = NoBody
    /\ respLocation = NoText
    /\ headers = NoHeaders
    /\ pageDetails = NoPageDetails

\* NewClient with a token and WithRetries has returned a client; no operation
\* is running in either goroutine.
Init ==
    /\ \E retries \in -1..MaxRetries, wait \in RetryWaits :
         LET c == NewClient("token", <<WithRetries(retries, wait)>>).client
         IN  /\ apiToken = "token"
             /\ options = <<WithRetries(retries, wait)>>
             /\ Endpoint = c.Endpoint
             /\ Retries = c.Retries
             /\ RetryWait = c.RetryWait
             /\ baseURL = c.Endpoint
             /\ httpHeaders = DefaultHeaders("token")
    /\ idleConns = 0 /\ closes = 0
    /\ self = 1
    /\ Idle
    /\ peer = Locals

\* The context's cancel function is called, or its deadline passes.
Cancel ==
    /\ pc # "done"
    /\ ~ctxDone
    /\ ctxDone' = TRUE
    /\ UNCHANGED <<clientVars, otherVars, idleConns,
                   pc, call, req, bodyReader, attempt, resp,
                   lastErr, respClosed, sendLog, waits, result, respBody, respLocation,
                   headers, pageDetails>>

\* Call with a Client.do that runs the request closure without looking at
\* the context.
CallIgnoringContext(op, id, opts) ==
    /\ pc = "idle"
    /\ call' = [op |-> op, id |-> id, opts |-> opts]
    /\ IF ChecksId(op) /\ id = NoText
       THEN /\ result' = Outcome(OnfidoError(ErrInvalidId.type, ErrInvalidId.message), 0)
            /\ pc' = "done"
            /\ UNCHANGED <<req, bodyReader>>
       ELSE LET o == RequestRetries(op, Retries, RetryWait)
            IN  /\ req' = [method    |-> HttpMethod(op),
                           baseURL   |-> baseURL,
                           path      |-> HttpPath(op, id),
                           query     |-> QueryParams(op, id, opts),
                           header    |-> RequestHeader(httpHeaders, HttpBody(op)),
                           body      |-> HttpBody(op),
                           retries   |-> o.retries,
                           retryWait |-> EffectiveRetryWait(o.retries, o.retryWait)]
                /\ bodyReader' = SerializeBody(HttpBody(op))
                /\ pc' = "loop"
                /\ UNCHANGED result
    /\ UNCHANGED <<clientVars, otherVars, idleConns,
                   ctxDone, attempt, resp, lastErr, respClosed,
                   sendLog, waits, respBody, respLocation,
                   headers, pageDetails>>

\* Call with a doRequest that sets the Content-Type of the body on the
\* transport's headers, not on options.headers.
CallSharingHeaders(op, id, opts) ==
    /\ pc = "idle"
    /\ call' = [op |-> op, id |-> id, opts |-> opts]
    /\ IF ChecksId(op) /\ id = NoText
       THEN /\ result' = Outcome(OnfidoError(ErrInvalidId.type, ErrInvalidId.message), 0)
            /\ pc' = "done"
            /\ UNCHANGED <<req, bodyReader, httpHeaders>>
       ELSE IF ctxDone
       THEN /\ result' = Outcome(Errorf("context", "context"), 0)
            /\ pc' = "done"
            /\ UNCHANGED <<req, bodyReader, httpHeaders>>
       ELSE LET o == RequestRetries(op, Retries, RetryWait)
            IN  /\ httpHeaders' = RequestHeader(httpHeaders, HttpBody(op))
                /\ req' = [method    |-> HttpMethod(op),
                           baseURL   |-> baseURL,
                           path      |-> HttpPath(op, id),
                           query     |-> QueryParams(op, id, opts),
                           header    |-> httpHeaders',
                           body      |-> HttpBody(op),
                           retries   |-> o.retries,
                           retryWait |-> EffectiveRetryWait(o.retries, o.retryWait)]
                /\ bodyReader' = SerializeBody(HttpBody(op))
                /\ pc' = "loop"
                /\ UNCHANGED result
    /\ UNCHANGED <<apiToken, options, Endpoint, Retries, RetryWait, baseURL,
                   otherVars, idleConns, ctxDone, attempt, resp, lastErr,
                   respClosed, sendLog, waits, respBody, respLocation, headers,
                   pageDetails>>

\* A facade operation up to the retry loop of doRequest: the identifier
\* check where the operation has one, Client.do's look at the context, and
\* doRequest's options, URL, body and request.
Call(op, id, opts) ==
    /\ pc = "idle"
    /\ call' = [op |-> op, id |-> id, opts |-> opts]
    /\ IF ChecksId(op) /\ id = NoText
       THEN /\ result' = Outcome(OnfidoError(ErrInvalidId.type, ErrInvalidId.message), 0)
            /\ pc' = "done"
            /\ UNCHANGED <<req, bodyReader>>
       ELSE IF ctxDone
       THEN /\ result' = Outcome(Errorf("context", "context"), 0)
            /\ pc' = "done"
            /\ UNCHANGED <<req, bodyReader>>
       ELSE LET o == RequestRetries(op, Retries, RetryWait)
            IN  /\ req' = [method    |-> HttpMethod(op),
                           baseURL   |-> baseURL,
                           path      |-> HttpPath(op, id),
                           query     |-> QueryParams(op, id, opts),
                           header    |-> RequestHeader(httpHeaders, HttpBody(op)),
                           body      |-> HttpBody(op),
                           retries   |-> o.retries,
                           retryWait |-> EffectiveRetryWait(o.retries, o.retryWait)]
                /\ bodyReader' = SerializeBody(HttpBody(op))
                /\ pc' = "loop"
                /\ UNCHANGED result
    /\ UNCHANGED <<clientVars, otherVars, idleConns,
                   ctxDone, attempt, resp, lastErr, respClosed,
                   sendLog, waits, respBody, respLocation,
                   headers, pageDetails>>

\* The operations with one identifier or a short option list.
CallOp ==
    \E op \in Ops :
        \E id \in (IF op \in IdOps THEN Ids ELSE {NoText}) :
            \E opts \in (IF op \in ListOps THEN SeqsUpTo(PageOptions, 1) ELSE {<<>>}) :
                Call(op, id, opts)

\* The list operations with every option list of up to MaxOpts options.
CallList ==
    \E op \in ListOps :
        \E opts \in SeqsUpTo(ListOptions(op), MaxOpts) :
            Call(op, NoText, opts)

\* The head of the retry loop: the loop test and, from the second turn on,
\* the wait.
LoopHead ==
    /\ pc = "loop"
    /\ IF attempt > req.retries
       THEN /\ pc' = "return"
            /\ UNCHANGED <<attempt, waits>>
       ELSE IF attempt = 0
       THEN /\ pc' = "send"
            /\ UNCHANGED <<attempt, waits>>
       ELSE LET ra == RetryAfterSeconds(resp)
            IN  IF ra.ok
                THEN \* time.Sleep(seconds); continue
                     /\ waits' = Append(waits, ra.n)
                     /\ attempt' = attempt + 1
                     /\ pc' = "loop"
                ELSE /\ waits' = Append(waits, req.retryWait)
                     /\ pc' = "send"
                     /\ UNCHANGED attempt
    /\ UNCHANGED <<clientVars, otherVars, idleConns,
                   ctxDone, call, req, bodyReader, resp, lastErr,
                   respClosed, sendLog, result, respBody, respLocation,
                   headers, pageDetails>>

\* AfterDo without the loop's attempt++ and without the budget test of the
\* break.
AfterDoNoBudget(r, err, offered, wire, first) ==
    /\ resp' = r
    /\ lastErr' = err
    /\ sendLog' = Append(sendLog, [offered |-> offered, wire |-> wire,
                                   first |-> first, resp |-> r, err |-> err])
    /\ IF ~shouldRetry(r, err)
       THEN /\ pc' = "return"
            /\ respClosed' = FALSE
            /\ UNCHANGED attempt
       ELSE /\ pc' = "loop"
            /\ respClosed' = (err = "nil")
            /\ attempt' = IF attempt = 0 THEN 1 ELSE attempt

\* resp, lastErr = c.client.Do(req) with the outcome (r, err), where first
\* is the server's answer to the request itself (r unless the client
\* followed a redirect), then the rest
\* of the loop body: break, or close the body and go to the next turn.
AfterDo(r, err, offered, wire, first) ==
    /\ resp' = r
    /\ lastErr' = err
    /\ sendLog' = Append(sendLog, [offered |-> offered, wire |-> wire,
                                   first |-> first, resp |-> r, err |-> err])
    /\ IF ~shouldRetry(r, err) \/ attempt >= req.retries
       THEN /\ pc' = "return"
            /\ respClosed' = FALSE
            /\ UNCHANGED attempt
       ELSE /\ pc' = "loop"
            /\ respClosed' = (err = "nil")
            /\ attempt' = attempt + 1

\* One c.client.Do(req).  With the context done it fails at once; otherwise
\* the server answers, or the transport fails, or the context is cancelled
\* while the request is in flight.
Send ==
    /\ pc = "send"
    /\ \/ /\ ctxDone
          /\ AfterDo(NoResp, "context", bodyReader, FALSE, NoResp)
          /\ UNCHANGED <<bodyReader, ctxDone, idleConns>>
       \/ /\ ~ctxDone
          /\ \E r \in Responses :
                IF FollowsRedirect(r)
                THEN \E next \in Responses : AfterDo(next, "nil", bodyReader, TRUE, r)
                ELSE AfterDo(r, "nil", bodyReader, TRUE, r)
          /\ bodyReader' = <<>>
          \* the connection is kept alive and goes back to the pool
          /\ idleConns' = 1
          /\ UNCHANGED ctxDone
       \/ /\ ~ctxDone
          /\ \E err \in {"transport", "context"}, consumed \in BOOLEAN :
                /\ AfterDo(NoResp, err, bodyReader, TRUE, NoResp)
                /\ bodyReader' = IF consumed THEN <<>> ELSE bodyReader
                /\ ctxDone' = (err = "context")
          \* the connection of a failed exchange is dropped
          /\ idleConns' = 0
    /\ UNCHANGED <<clientVars, otherVars,
                   call, req, waits, result, respBody, respLocation,
                   headers, pageDetails>>

\* The end of doRequest, the operation's mapping of its response or error,
\* and the operation's return.
Return ==
    /\ pc = "return"
    /\ pc' = "done"
    /\ IF lastErr # "nil"
       THEN /\ result' = Outcome(MapTransportError(call.op,
                                  Errorf("request failed after retries", lastErr)), 0)
            /\ UNCHANGED <<respBody, respLocation,
                   headers, pageDetails>>
       ELSE IF resp = NoResp
       THEN \* resp.Body of a nil response
            /\ result' = [val |-> "none", err |-> Errorf("panic", "nil dereference"),
                          status |-> 0, url |-> NoText, page |-> "nil"]
            /\ UNCHANGED <<respBody, respLocation,
                   headers, pageDetails>>
       ELSE \E body \in Bodies, location \in Locations, readFails \in BOOLEAN :
               /\ respClosed => body = NoBody \/ readFails
               /\ ~respClosed => ~readFails
               /\ readFails => body = NoBody
               /\ location # NoText => resp.status = StatusFound /\ body = NoBody
               /\ readFails => location = NoText
               /\ respBody' = body
               /\ respLocation' = location
               /\ result' =
                    IF readFails
                    THEN Outcome(MapTransportError(call.op,
                             Errorf("failed to read response body", "read")), 0)
                    ELSE WithList(
                             WithURL(Outcome(MapResponse(call.op, resp, body, location),
                                             resp.status), call.op, location),
                             call.op, body)
               /\ IF call.op \in PagedOps /\ ~readFails
                  THEN /\ headers' \in ListHeaders
                       \* ListWorkflowRuns extracts before it maps the response
                       /\ pageDetails' =
                            IF call.op = "ListWorkflowRuns"
                               \/ MapResponse(call.op, resp, body, location) = NoError
                            THEN ListPageDetails[headers']
                            ELSE pageDetails
                  ELSE UNCHANGED <<headers, pageDetails>>
    /\ UNCHANGED <<clientVars, otherVars, idleConns,
                   ctxDone, call, req, bodyReader, attempt, resp,
                   lastErr, respClosed, sendLog, waits>>

Next == CallOp \/ Cancel \/ LoopHead \/ Send \/ Return

Spec == Init /\ [][Next]_vars

NextList == CallList \/ Cancel \/ LoopHead \/ Send \/ Return

InitList == Init /\ Retries = 1 /\ RetryWait = 5

SpecList == InitList /\ [][NextList]_vars

\* extractPageDetails that takes the headers it reads out of the response.
ExtractPageConsuming ==
    /\ pc \in {"idle", "extracted"}
    /\ pageDetails' = extractPageDetails(headers)
    /\ headers' = [headers EXCEPT !.Link = "", !.Total = ""]
    /\ pc' = IF pc = "idle" THEN "extracted" ELSE "extracted again"
    /\ UNCHANGED <<clientVars, otherVars, idleConns, ctxDone, call, req, bodyReader,
                   attempt, resp, lastErr, respClosed, sendLog, waits, result,
                   respBody, respLocation>>

\* extractPageDetails applied to the headers of a response, a first and a
\* second time.
ExtractPage ==
    /\ pc \in {"idle", "extracted"}
    /\ pageDetails' = extractPageDetails(headers)
    /\ pc' = IF pc = "idle" THEN "extracted" ELSE "extracted again"
    /\ UNCHANGED <<clientVars, otherVars, idleConns, ctxDone, call, req, bodyReader,
                   attempt, resp, lastErr, respClosed, sendLog, waits, result,
                   respBody, respLocation, headers>>

InitPage ==
    /\ apiToken = "token" /\ options = <<>>
    /\ Endpoint = NewClient("token", <<>>).client.Endpoint
    /\ Retries = 0 /\ RetryWait = 0
    /\ baseURL = Endpoint /\ httpHeaders = DefaultHeaders("token")
    /\ idleConns = 0 /\ closes = 0
    /\ self = 1
    /\ ctxDone = FALSE
    /\ pc = "idle"
    /\ call = NoCall
    /\ req = NoReq
    /\ bodyReader = <<>>
    /\ attempt = 0
    /\ resp = NoResp
    /\ lastErr = "nil"
    /\ respClosed = FALSE
    /\ sendLog = <<>>
    /\ waits = <<>>
    /\ result = NoResult
    /\ respBody = NoBody
    /\ respLocation = NoText
    /\ headers \in AllHeaders
    /\ pageDetails = NoPageDetails
    /\ peer = [Locals EXCEPT !.headers = NoHeaders]

NextPage == ExtractPage

SpecPage == InitPage /\ [][NextPage]_vars

\* NewClient is called with the token and the options.
CallNewClient ==
    /\ pc = "new"
    /\ LET r == NewClient(apiToken, options)
       IN  /\ Endpoint' = r.client.Endpoint
           /\ Retries' = r.client.Retries
           /\ RetryWait' = r.client.RetryWait
           \* httpclient.NewHttpClient(endpoint, WithHttpHeaders(headers))
           /\ baseURL' = r.client.Endpoint
           /\ httpHeaders' = IF r.client.nil THEN NoHttpHeaders
                                             ELSE DefaultHeaders(apiToken)
           /\ result' = [NoResult EXCEPT
                            !.val = IF r.client.nil THEN "nil" ELSE "value",
                            !.err = r.err]
           /\ pc' = IF r.client.nil THEN "done" ELSE "idle"
    /\ UNCHANGED <<apiToken, options, otherVars, idleConns, ctxDone, call, req,
                   bodyReader, attempt, resp, lastErr, respClosed, sendLog, waits,
                   respBody, respLocation, headers, pageDetails>>

\* Before NewClient: no client exists, its fields hold no value yet.
InitNew ==
    /\ apiToken \in Tokens
    /\ options \in SeqsUpTo(ClientOptions, MaxOpts)
    /\ Endpoint = NoClient.Endpoint
    /\ Retries = NoClient.Retries /\ RetryWait = NoClient.RetryWait
    /\ baseURL = "" /\ httpHeaders = NoHttpHeaders
    /\ idleConns = 0 /\ closes = 0
    /\ self = 1
    /\ ctxDone = FALSE
    /\ pc = "new"
    /\ call = NoCall
    /\ req = NoReq
    /\ bodyReader = <<>>
    /\ attempt = 0
    /\ resp = NoResp
    /\ lastErr = "nil"
    /\ respClosed = FALSE
    /\ sendLog = <<>>
    /\ waits = <<>>
    /\ result = NoResult
    /\ respBody = NoBody
    /\ respLocation = NoText
    /\ headers = NoHeaders
    /\ pageDetails = NoPageDetails
    /\ peer = Locals

NextNew == CallNewClient

SpecNew == InitNew /\ [][NextNew]_vars

\* The scheduler suspends the running goroutine and resumes the other one.
Switch ==
    /\ self' = 3 - self
    /\ peer' = Locals
    /\ ctxDone' = peer.ctxDone
    /\ pc' = peer.pc
    /\ call' = peer.call
    /\ req' = peer.req
    /\ bodyReader' = peer.bodyReader
    /\ attempt' = peer.attempt
    /\ resp' = peer.resp
    /\ lastErr' = peer.lastErr
    /\ respClosed' = peer.respClosed
    /\ sendLog' = peer.sendLog
    /\ waits' = peer.waits
    /\ result' = peer.result
    /\ respBody' = peer.respBody
    /\ respLocation' = peer.respLocation
    /\ headers' = peer.headers
    /\ pageDetails' = peer.pageDetails
    /\ UNCHANGED <<clientVars, idleConns, closes>>

\* The operations two goroutines call on one client: the first uploads a
\* document, whose body is multipart, the second deletes an applicant, which
\* takes no body.
CallConcurrent ==
    IF self = 1
    THEN Call("UploadDocument", NoText, <<>>)
    ELSE Call("DeleteApplicant", <<"a", "1">>, <<>>)

NextConcurrent == CallConcurrent \/ Cancel \/ LoopHead \/ Send \/ Return \/ Switch

InitConcurrent == Init /\ Retries = 1 /\ RetryWait = 0

SpecConcurrent == InitConcurrent /\ [][NextConcurrent]_vars

\* The operations on one applicant: CreateApplicant reaches doRequest without
\* retry options, the others with those of the client.
CallApplicant ==
    \E op \in ApplicantOps \ ListOps :
        \E id \in (IF op \in IdOps THEN Ids ELSE {NoText}) :
            Call(op, id, <<>>)

\* Close that also drops the transport's headers.
CloseDroppingHeaders ==
    /\ pc # "new"
    /\ closes < MaxCloses
    /\ closes' = closes + 1
    /\ idleConns' = 0
    /\ httpHeaders' = NoHttpHeaders
    /\ UNCHANGED <<apiToken, options, Endpoint, Retries, RetryWait, baseURL, self,
                   peer, ctxDone, pc, call, req, bodyReader, attempt, resp, lastErr,
                   respClosed, sendLog, waits, result, respBody, respLocation,
                   headers, pageDetails>>

\* Client.Close: c.client.Close(), that is CloseIdleConnections of the
\* http.Client.  Connections in use by a request are left alone.
Close ==
    /\ pc # "new"
    /\ closes < MaxCloses
    /\ closes' = closes + 1
    /\ idleConns' = 0
    /\ UNCHANGED <<clientVars, self, peer, ctxDone, pc, call, req, bodyReader,
                   attempt, resp, lastErr, respClosed, sendLog, waits, result,
                   respBody, respLocation, headers, pageDetails>>

NextClose == CallApplicant \/ Cancel \/ LoopHead \/ Send \/ Return \/ Close

InitClose == Init /\ Retries = 1 /\ RetryWait = 5

SpecClose == InitClose /\ [][NextClose]_vars

NextLive == CallApplicant \/ Cancel \/ LoopHead \/ Send \/ Return

\* doRequest is sequential code: the loop test, time.Sleep, client.Do (under
\* the client's timeout) and the return each complete once reached.
SpecLive ==
    Init /\ [][NextLive]_vars
         /\ WF_vars(LoopHead) /\ WF_vars(Send) /\ WF_vars(Return)

\* ------------------------------------------------------------------- claims

\* Entry i of sendLog is a response with this status and Retry-After.
Answered(i, status, retryAfter) ==
    /\ i <= Len(sendLog)
    /\ sendLog[i].err = "nil"
    /\ sendLog[i].resp = [status |-> status, retryAfter |-> retryAfter]

\* An attempt that ended in a transport error, a 429 or a status >= 500.
RetryableEntry(e) == e.err # "nil" \/ e.resp.status = 429 \/ e.resp.status >= 500

\* The operation is over, or doRequest has left its retry loop.
LoopOver == pc \in {"return", "done"}

\* C1: with a retry budget of at least 1, a 429 with Retry-After: 3 is
\* followed by one wait of 3 seconds and then by a second send; when that
\* send is answered 200 there are exactly two sends, the only wait is the
\* 3 seconds, and the caller gets the 200.
C1_RetryAfterThenResend ==
    (LoopOver /\ ~ctxDone /\ req.retries >= 1 /\ Answered(1, 429, <<"3">>))
        => /\ Len(sendLog) >= 2
           /\ waits # <<>> /\ waits[1] = 3
           /\ Answered(2, 200, NoText)
                => /\ Len(sendLog) = 2
                   /\ waits = <<3>>
                   /\ resp.status = 200 /\ lastErr = "nil" /\ ~respClosed

\* C2: every attempt of a request with a body is given the whole serialized
\* body: no attempt finds the body consumed or empty.
C2_SameBodyEveryAttempt ==
    \A i \in 1..Len(sendLog) : sendLog[i].offered = SerializeBody(req.body)

\* C3: once the context is done inside the retry loop there is no further
\* wait and no further send, a send that failed on the cancellation is not
\* retried, and the operation returns a cancellation error.
C3_CancelEndsRetryLoop ==
    [][/\ (ctxDone /\ pc \in {"loop", "send"})
            => /\ waits' = waits
               /\ \A i \in (Len(sendLog) + 1)..Len(sendLog') : ~sendLog'[i].wire
       /\ (pc = "send" /\ lastErr' = "context") => pc' = "return"
       /\ (ctxDone /\ pc = "return") => result'.err.cause = "context"]_vars

\* C4: every operation runs its request with the client's Retries and
\* RetryWait, so with Retries >= 1 a first attempt that fails retryably
\* (and carries no Retry-After) is followed by a second attempt.
C4_EveryOperationRetries ==
    (req # NoReq /\ Retries >= 1)
        => /\ req.retries = Retries
           /\ req.retryWait = EffectiveRetryWait(Retries, RetryWait)
           /\ (LoopOver /\ ~ctxDone /\ sendLog # <<>> /\ RetryableEntry(sendLog[1])
                 /\ sendLog[1].resp.retryAfter = NoText)
                => Len(sendLog) >= 2

\* The operations C5 names.
C5Ops ==
    {"RetrieveApplicant", "UpdateApplicant", "DeleteApplicant", "RestoreApplicant",
     "RetrieveWorkflowRun", "RetrieveDocument", "DownloadDocument",
     "DownloadDocumentNFCFace", "DownloadDocumentVideo"}

\* C5: an operation with an identifier parameter, called with an empty
\* identifier, sends nothing and returns an error of type validation_error.
C5_EmptyIdIsValidationError ==
    (call.op \in C5Ops /\ call.id = NoText /\ ~ctxDone /\ Retries >= 0)
        => /\ sendLog = <<>>
           /\ pc = "done" => /\ result.val = "nil"
                             /\ result.err.type = "validation_error"

\* C6: RetrieveWorkflowRunEvidenceSummaryFile with an empty workflow run ID
\* sends nothing and returns a nil result with the error "workflow run ID is
\* required".
C6_EvidenceFileNeedsId ==
    (call.op = "RetrieveWorkflowRunEvidenceSummaryFile" /\ call.id = NoText /\ ~ctxDone
        /\ Retries >= 0)
        => /\ sendLog = <<>>
           /\ pc = "done" => /\ result.val = "nil"
                             /\ result.err.message = "workflow run ID is required"

\* The query key of a field of listWorkflowRunOptions (its struct tag).
WorkflowRunQueryKey(field) ==
    CASE field = "Status"        -> "status"
      [] field = "Tags"          -> "tags"
      [] field = "CreatedAfter"  -> "created_at_gt"
      [] field = "CreatedBefore" -> "created_at_lt"
      [] field = "Sort"          -> "sort"

\* C7: every filter option given to ListWorkflowRuns has its parameter in
\* the query of the request.
C7_WorkflowRunFiltersSent ==
    (call.op = "ListWorkflowRuns" /\ req # NoReq)
        => \A i \in 1..Len(call.opts) :
              call.opts[i].type = "ListWorkflowRunOption"
                  => WorkflowRunQueryKey(call.opts[i].field) \in DOMAIN req.query

\* The argument of the last option of this type among opts, 0 with none.
RECURSIVE LastArg(_, _)
LastArg(opts, type) ==
    IF opts = <<>> THEN 0
    ELSE IF opts[Len(opts)].type = type THEN opts[Len(opts)].num
    ELSE LastArg(SubSeq(opts, 1, Len(opts) - 1), type)

\* The query has key exactly when n is not zero, and then with n in decimal.
CarriesNumber(query, key, n) ==
    IF n = 0 THEN key \notin DOMAIN query
    ELSE key \in DOMAIN query /\ Atoi(query[key]) = [ok |-> TRUE, n |-> n]

\* C8: the query of ListApplicants has page=p for WithPage(p) with p not
\* zero and per_page=l for WithPageLimit(l) with l not zero, neither for a
\* zero or missing option, and include_deleted=true with
\* WithIncludeDeletedApplicants.
C8_ApplicantPagingSent ==
    (call.op = "ListApplicants" /\ req # NoReq)
        => /\ CarriesNumber(req.query, "page", LastArg(call.opts, "PaginationOption"))
           /\ CarriesNumber(req.query, "per_page",
                            LastArg(call.opts, "LimitPaginationOption"))
           /\ IF LastArg(call.opts, "ListApplicantsOption") = 1
              THEN /\ "include_deleted" \in DOMAIN req.query
                   /\ req.query["include_deleted"] = <<"t", "r", "u", "e">>
              ELSE "include_deleted" \notin DOMAIN req.query

\* The fixed wait of a request whose configured wait is RetryWait: the
\* configured wait, or the default when none is configured.
FixedWait == IF RetryWait = 0 THEN DefaultRetryWait ELSE RetryWait

\* C9: with a budget of at least 2 and no Retry-After, a 429 is followed by
\* a second send, a second 429 by a third, and when the third is answered 200
\* there are exactly three sends and two waits, each the configured retry
\* wait or, when the configured wait is zero, the default of 2 seconds, and
\* the 200 is what doRequest returns.
C9_TwoWaitsThenOk ==
    (LoopOver /\ req.retries >= 2 /\ Answered(1, 429, NoText))
        => /\ Len(sendLog) >= 2
           /\ Answered(2, 429, NoText)
                => /\ Len(sendLog) >= 3
                   /\ Answered(3, 200, NoText)
                        => /\ Len(sendLog) = 3
                           /\ waits = <<FixedWait, FixedWait>>
                           /\ resp.status = 200 /\ lastErr = "nil" /\ ~respClosed

\* C9 reached with no wait configured: [429, 429, 200] is answered by three
\* sends and two waits of the default.
C9_Witness ==
    /\ pc = "done" /\ req.retries >= 2 /\ RetryWait = 0 /\ result.val = "value"
    /\ Answered(1, 429, NoText) /\ Answered(2, 429, NoText) /\ Answered(3, 200, NoText)
    /\ waits = <<DefaultRetryWait, DefaultRetryWait>>

\* C9 as stated: after [429, 429, 200] with no Retry-After there are exactly
\* three sends and two waits, each of the configured retry wait.
C9_WaitsAreConfiguredWait ==
    (LoopOver /\ req.retries >= 2 /\ Answered(1, 429, NoText)
        /\ Answered(2, 429, NoText) /\ Answered(3, 200, NoText))
        => /\ Len(sendLog) = 3
           /\ waits = <<RetryWait, RetryWait>>
           /\ resp.status = 200 /\ lastErr = "nil" /\ ~respClosed

LastSend == sendLog[Len(sendLog)]

\* C12: when the retry loop has stopped, the caller gets the outcome of the
\* last attempt: a response of the last attempt is returned with its status
\* and its body read (no error of doRequest), and a transport error of the
\* last attempt is returned as an error wrapping it, with no response.
C12_LastOutcomeReturned ==
    (pc = "done" /\ sendLog # <<>> /\ req.retries >= 0)
        => IF LastSend.err = "nil"
           THEN /\ result.status = LastSend.resp.status
                /\ result.err.cause # "read"
           ELSE /\ result.val = "nil"
                /\ result.err = MapTransportError(call.op,
                       Errorf("request failed after retries", LastSend.err))

\* The error of a context that is cancelled or past its deadline.
ContextError == Errorf("context", "context")

\* An operation begins: the step that leaves "idle".
OperationStarts == pc = "idle" /\ pc' # "idle"

\* C13: an operation started with its context already done returns the
\* context's error and sends nothing, unless it first rejects an empty
\* identifier with ErrInvalidId (still sending nothing); started with a live
\* context, Client.do runs the request closure, which enters doRequest.
C13_DoneContextStopsOperation ==
    [][OperationStarts =>
           IF ChecksId(call'.op) /\ call'.id = NoText
           THEN pc' = "done" /\ sendLog' = <<>> /\ req' = NoReq
                /\ result'.val = "nil" /\ result'.err.type = ErrInvalidId.type
           ELSE IF ctxDone
           THEN pc' = "done" /\ sendLog' = <<>> /\ req' = NoReq
                /\ result' = Outcome(ContextError, 0)
           ELSE pc' = "loop" /\ req' # NoReq /\ result' = NoResult]_vars

C13_Witness ==
    /\ pc = "done" /\ ctxDone /\ call.op = "UpdateApplicant"
    /\ result = Outcome(ContextError, 0) /\ sendLog = <<>> /\ req = NoReq

\* C13 as stated: every operation started with its context already done
\* returns the context's error and sends nothing.
C13_DoneContextAlwaysContextError ==
    [][(OperationStarts /\ ctxDone)
           => pc' = "done" /\ sendLog' = <<>> /\ result' = Outcome(ContextError, 0)]_vars

\* doRequest returned the last response with its body read, and the
\* operation has mapped it.
ResponseMapped == pc = "done" /\ result.status # 0 /\ result.status = resp.status

\* The status is outside [200,300) and is not a 302 that the operation
\* tolerates.
ErrorStatus ==
    /\ resp.status < 200 \/ resp.status >= 300
    /\ ~(resp.status = 302 /\ IgnoresFound(call.op))

\* The body read is an {"error": {type, message, fields}} envelope.
WellFormedEnvelope ==
    /\ respBody.json = "object" /\ respBody.hasError
    /\ \A tag \in {"type", "message", "fields"} : \E m \in respBody.error : m[1] = tag

\* C14: a response with an error status and a well-formed error envelope
\* gives a domain error whose Type, Message and Fields are those of the
\* envelope, and the operation returns no result.
C14_EnvelopeBecomesDomainError ==
    (ResponseMapped /\ ErrorStatus /\ WellFormedEnvelope)
        => /\ result.val = "nil"
           /\ result.err.kind = "OnfidoError"
           /\ <<"type", result.err.type>> \in respBody.error
           /\ <<"message", result.err.message>> \in respBody.error
           /\ <<"fields", result.err.fields>> \in respBody.error

C14_Witness ==
    /\ ResponseMapped /\ resp.status = 422 /\ WellFormedEnvelope
    /\ result.val = "nil"
    /\ result.err.type = "validation_error" /\ result.err.message = "invalid"
    /\ result.err.fields = "email"

\* The body read is JSON of the kind the operation's destination takes.
BodyFitsDest ==
    \/ DestShape(call.op) = "struct" /\ respBody.json = "object"
    \/ DestShape(call.op) = "slice" /\ respBody.json = "array"

\* C15: for a status in [200,300) getResponseOrError gives a nil error when
\* the operation has no destination or the body decodes into it, and
\* otherwise the decode error; no body makes a 2xx an API domain error.
C15_SuccessStatusOnlyDecodeErrors ==
    (ResponseMapped /\ resp.status >= 200 /\ resp.status < 300 /\ ~IgnoresFound(call.op))
        => IF DestShape(call.op) = "none" \/ BodyFitsDest
           THEN result.err = NoError
           ELSE /\ result.val = "nil"
                /\ result.err.kind = "OnfidoError"
                /\ result.err.type = "unknown internal error"
                /\ result.err.detail # ""

C15_Witness ==
    /\ ResponseMapped /\ resp.status = 200 /\ call.op = "RetrieveApplicant"
    /\ WellFormedEnvelope
    /\ result.err = NoError /\ result.val = "value"

\* The body read fails to decode: into the destination on the success path,
\* or into the error envelope on the error path.
DecodeFails ==
    \/ /\ resp.status >= 200 /\ resp.status < 300
       /\ ~IgnoresFound(call.op) /\ DestShape(call.op) # "none" /\ ~BodyFitsDest
    \/ ErrorStatus /\ respBody.json # "object"

\* C16: when the body read cannot be decoded, on the success path or on the
\* error path, the operation returns no result and an OnfidoError of type
\* "unknown internal error" that carries the text of the decode failure; an
\* empty body is such a failure ("unexpected end of JSON input").
C16_DecodeFailureIsUnknownInternalError ==
    (ResponseMapped /\ DecodeFails)
        => /\ result.val = "nil"
           /\ result.err.kind = "OnfidoError"
           /\ result.err.type = "unknown internal error"
           /\ result.err.detail # ""
           /\ respBody.json = "empty" => result.err.detail = "unexpected end of JSON input"

C16_Witness ==
    /\ ResponseMapped /\ resp.status = 200 /\ call.op = "RetrieveApplicant"
    /\ respBody = NoBody
    /\ result.err.type = "unknown internal error"
    /\ result.err.detail = "unexpected end of JSON input"

DownloadOps == {"DownloadDocument", "DownloadDocumentNFCFace", "DownloadDocumentVideo"}

WellFormedLink(e) == e.form \in {"plain", "limit", "limitFirst"}

\* The page of the last well-formed link of relation rel with a page that
\* is not zero, or 0 when the headers have none.
PageSent(rel) ==
    LET at == {i \in 1..Len(headers.sent) :
                  /\ WellFormedLink(headers.sent[i])
                  /\ headers.sent[i].rel = rel
                  /\ headers.sent[i].page # 0}
    IN  IF at = {} THEN 0
        ELSE headers.sent[CHOOSE i \in at : \A j \in at : j <= i].page

\* C18: extractPageDetails sets the field of each relation to the page of
\* the well-formed link of that relation, whatever the other links are, and
\* leaves it unset when there is none; Total is an integer X-Total-Count.
C18_EveryWellFormedLinkExtracted ==
    pc = "extracted"
        => /\ pageDetails.FirstPage = PageSent("first")
           /\ pageDetails.LastPage = PageSent("last")
           /\ pageDetails.NextPage = PageSent("next")
           /\ pageDetails.PrevPage = PageSent("prev")
           /\ pageDetails.Total = (IF headers.Total = "6" THEN 6 ELSE 0)

\* The operations that return a result beside the error.
ResultOps == Ops \ {"DeleteApplicant", "RestoreApplicant"}

\* C19: an operation that has returned gives either a non-nil result and a
\* nil error or a nil result and a non-nil error, and a list operation gives
\* a page descriptor exactly when its error is nil.
C19_ResultXorError ==
    (pc = "done" /\ Retries >= 0)
        => /\ call.op \in ResultOps
                => \/ result.val = "value" /\ result.err = NoError
                   \/ result.val = "nil" /\ result.err # NoError
           /\ call.op \in PagedOps
                => (result.page # "nil" <=> result.err = NoError)

\* The options of a kind among those NewClient was called with.
Given(name) == {i \in 1..Len(options) : options[i].name = name}

\* The last option of a kind: the one whose values the client is to carry.
LastGiven(name) == options[CHOOSE i \in Given(name) : \A j \in Given(name) : j <= i]

\* The endpoint the client is to have for each region.
RegionEndpoint ==
    [eu |-> "https://api.eu.onfido.com/v3.6",
     us |-> "https://api.us.onfido.com/v3.6",
     ca |-> "https://api.ca.onfido.com/v3.6"]

\* C20: NewClient with an empty token returns an error and no client; with a
\* token it returns a client whose Endpoint is that of the region given by
\* WithRegion, of eu when none is given, and whose Retries and RetryWait are
\* the values given to WithRetries.
C20_NewClientEndpointAndRetries ==
    pc # "new" =>
        IF apiToken = ""
        THEN result.val = "nil" /\ result.err # NoError
        ELSE /\ result.val = "value" /\ result.err = NoError
             /\ Endpoint = IF Given("WithRegion") = {}
                           THEN RegionEndpoint["eu"]
                           ELSE RegionEndpoint[LastGiven("WithRegion").region]
             /\ Given("WithRetries") # {}
                    => /\ Retries = LastGiven("WithRetries").retries
                       /\ RetryWait = LastGiven("WithRetries").wait

C20_Witness ==
    /\ pc = "idle"
    /\ apiToken = "token"
    /\ options = <<WithRegion(API_REGION_US), WithRetries(2, 5)>>
    /\ Endpoint = "https://api.us.onfido.com/v3.6"
    /\ Retries = 2 /\ RetryWait = 5

\* The request an operation builds when it is the only one running on the
\* client NewClient returned.
AloneRequest(c) ==
    LET cl == NewClient(apiToken, options).client
        o == RequestRetries(c.op, cl.Retries, cl.RetryWait)
    IN  [method    |-> HttpMethod(c.op),
         baseURL   |-> cl.Endpoint,
         path      |-> HttpPath(c.op, c.id),
         query     |-> QueryParams(c.op, c.id, c.opts),
         header    |-> RequestHeader(DefaultHeaders(apiToken), HttpBody(c.op)),
         body      |-> HttpBody(c.op),
         retries   |-> o.retries,
         retryWait |-> EffectiveRetryWait(o.retries, o.retryWait)]

\* C21: with two operations running on one client, no step writes the
\* client's base URL, default headers or retry configuration, a step of one
\* operation leaves the other one's sends, waits and result as they are, and
\* each operation sends the request it would build running alone.
C21_ConcurrentOperationsIndependent ==
    /\ [](\A l \in {Locals, peer} : l.req # NoReq => l.req = AloneRequest(l.call))
    /\ [][/\ UNCHANGED clientVars
          /\ self' = self => peer' = peer]_vars

C21_Witness ==
    /\ self = 1 /\ pc = "done" /\ call.op = "UploadDocument"
    /\ Len(sendLog) = 2 /\ Len(waits) = 1 /\ result.err = NoError
    /\ peer.call.op = "DeleteApplicant" /\ peer.pc = "loop"
    /\ peer.attempt = 1 /\ Len(peer.sendLog) = 1

\* C22: a call of Close leaves Endpoint, Retries, RetryWait, the transport's
\* base URL and default headers and every operation's state as they are, and
\* an operation on a client that was closed, once or more, builds the request
\* and maps the response as on a client that never was.
C22_CloseLeavesClientUsable ==
    /\ [][closes' # closes => UNCHANGED clientVars /\ Locals' = Locals]_vars
    /\ [](closes > 0 =>
            /\ req # NoReq => req = AloneRequest(call)
            /\ (pc = "done" /\ lastErr = "nil" /\ resp # NoResp /\ ~respClosed)
                  => result.err = MapResponse(call.op, resp, respBody, respLocation))

C22_Witness ==
    /\ closes = MaxCloses /\ idleConns = 1
    /\ pc = "done" /\ call.op = "RetrieveApplicant"
    /\ Len(sendLog) = 2 /\ resp.status = StatusOK
    /\ result.err = NoError /\ result.val = "value"

WithoutLink(i) ==
    SubSeq(headers.sent, 1, i - 1) \o SubSeq(headers.sent, i + 1, Len(headers.sent))

\* Link i has a rel that is none of first, last, next and prev, or no rel.
ForeignRel(i) ==
    \/ headers.sent[i].rel \notin {"first", "last", "next", "prev"}
    \/ headers.sent[i].form = "noRel"

\* C24: a link whose rel is none of first, last, next and prev, or is
\* malformed, changes no field of the descriptor, Limit included: the
\* descriptor is that of the same headers without the link.
C24_ForeignRelHasNoEffect ==
    pc = "extracted"
        => \A i \in 1..Len(headers.sent) :
              ForeignRel(i)
                  => pageDetails = extractPageDetails(Headers(WithoutLink(i), headers.Total))

\* The links sent whose URL has a per_page parameter.
CarriesPerPage == {i \in 1..Len(headers.sent) : headers.sent[i].form \in {"limit", "limitFirst"}}

\* C25: Limit is the per_page of the links when a link of the header carries
\* one, whichever link that is and whatever its relation, and is unset when
\* none does.
C25_LimitFromAnyLink ==
    pc = "extracted"
        => pageDetails.Limit = (IF CarriesPerPage # {} THEN 2 ELSE 0)

\* The page of the last link of relation rel whose URL has a page parameter
\* that is not zero, wherever the parameter stands; 0 when there is none.
PageParam(rel) ==
    LET at == {i \in 1..Len(headers.sent) :
                  /\ headers.sent[i].form \in {"plain", "limit", "limitFirst", "sorted"}
                  /\ headers.sent[i].rel = rel
                  /\ headers.sent[i].page # 0}
    IN  IF at = {} THEN 0
        ELSE headers.sent[CHOOSE i \in at : \A j \in at : j <= i].page

\* C26: the field of a relation is the page parameter of the relation's
\* link, whether the parameter stands before or after per_page and whether
\* or not another parameter follows it.
C26_PageParameterAnywhere ==
    pc = "extracted"
        => /\ pageDetails.FirstPage = PageParam("first")
           /\ pageDetails.LastPage = PageParam("last")
           /\ pageDetails.NextPage = PageParam("next")
           /\ pageDetails.PrevPage = PageParam("prev")

\* The integer an X-Total-Count header stands for.
TotalSent ==
    CASE headers.Total = "6" -> 6
      [] OTHER               -> 0

C28_ErrorIsAnActualOnfidoError ==
    (ResponseMapped /\ ErrorStatus /\ respBody.json \in {"object", "array"})
        => /\ result.err.kind = "OnfidoError"
           /\ result.err.type # "" \/ result.err.message # ""

\* C29: whatever retry count WithRetries set, negative counts included, a
\* doRequest that has left its loop has sent at least once, and it goes on to
\* close and read the body of a response only when there is one: no
\* operation ends in the dereference of a nil response.
C29_AlwaysSendsAndNeverReadsNil ==
    /\ (pc \in {"return", "done"} /\ req # NoReq) => Len(sendLog) >= 1
    /\ (pc = "return" /\ lastErr = "nil") => resp # NoResp
    /\ pc = "done" => result.val # "none"

\* The response in hand is a 429 whose Retry-After is an integer.
IntegerRetryAfter ==
    /\ resp # NoResp /\ resp.status = 429 /\ resp.retryAfter # NoText
    /\ \A i \in 1..Len(resp.retryAfter) : IsDigit(resp.retryAfter[i])

\* C30: a wait that is followed by a send lasts the configured retry wait,
\* or 2 seconds when that is zero, at every turn of the loop alike; a
\* Retry-After on a response that is no 429, or one that is no integer, does
\* not change it.
C30_FixedWaitNeverChanges ==
    [][(Len(waits') = Len(waits) + 1 /\ ~IntegerRetryAfter)
          => /\ waits'[Len(waits')] = (IF RetryWait = 0 THEN 2 ELSE RetryWait)
             /\ pc' = "send"]_vars

C30_Witness ==
    /\ pc = "done" /\ req.retries = 2 /\ RetryWait = 5
    /\ Answered(1, 500, <<"3">>) /\ Answered(2, 429, <<"x">>) /\ Answered(3, 200, NoText)
    /\ waits = <<5, 5>>

====
